---- MODULE Spec2Model ----
(***************************************************************************)
(* Study-date resolution, streak state machine and Riga reward ledger of   *)
(* src/main.py.                                                            *)
(*                                                                         *)
(* Every handler opens its own database connection (psycopg.connect) and   *)
(* runs its statements in one transaction that is committed when the       *)
(* `with` block is left normally and rolled back when it is left by an     *)
(* exception.  The database is the only shared state.  The statements are  *)
(* synchronous calls: within one bot process a handler yields only where   *)
(* it awaits (interaction.response.defer or the answer of a precheck,      *)
(* both before `try` and before the handler has read anything, so that the *)
(* handler starts here where that await returns or raises; the answer to   *)
(* the user after the commit; the answer                                   *)
(* of the except clause; the "insufficient" answer of send inside its open *)
(* transaction; bot.fetch_user and channel.send of the reminder task       *)
(* inside its connection block); an await may raise; handlers interleave   *)
(* statement by statement when more than one                               *)
(* bot process serves the same database.  The database                     *)
(* runs them at its default isolation level (READ COMMITTED): a statement  *)
(* sees the rows committed before it started plus the transaction's own    *)
(* writes, a write takes the row's lock until the transaction ends, and a  *)
(* statement that needs a row locked by another transaction waits and then *)
(* works on the row as that transaction left it.                           *)
(*                                                                         *)
(* The tables are created outside src/main.py: riga_coin_balance is taken  *)
(* to default to 0 (add_riga_coins and send do arithmetic on it) and to    *)
(* carry no CHECK constraint.                                              *)
(*                                                                         *)
(* Time is counted in minutes since 1970-01-01T00:00 UTC and dates in days *)
(* since 1970-01-01.  The columns user_name and category of                *)
(* learning_records are written but never read by the operations modelled  *)
(* here and are left out of the record.                                    *)
(***************************************************************************)
EXTENDS Integers, FiniteSets, Bags, TLC

VARIABLES
    now,                \* the wall clock (minutes since the epoch, UTC)
    user_stats,         \* committed table user_stats: user_id -> row
    learning_records,   \* committed table learning_records: bag of <<user_id, recorded_at>>
    writes,             \* per connection: the uncommitted row versions (and row locks) it holds
    inserts,            \* per connection: the uncommitted learning_records rows
    h,                  \* per connection: the handler running on it, its position and locals
    nops,               \* number of handler invocations so far
    reminded            \* the last run of the reminder task: its query and its messages

vars == <<now, user_stats, learning_records, writes, inserts, h, nops, reminded>>

-----------------------------------------------------------------------------
(* Bounds of the model *)

\* handler invocations in one behaviour of Spec
MaxOps == 3
MaxPairOps == 2
\* handler invocations in one behaviour of SeqSpec
SeqMaxOps == 3
\* invocations of send in one behaviour of TransferSpec
MaxTransfers == 2
MaxDays == 10
MaxClockOps == 1
MaxLiveOps == 2
MaxReminderOps == 2
\* local (JST) calendar day, in days since 1970-01-01, on which the behaviours start
StartDay == 20000

Users == {"u1", "u2"}
Procs == {1, 2}

\* amounts a caller may pass to /send
Amounts == {0, 4, 6}

\* streaks the users hold when the behaviours start (0: the user has no row)
InitStreaks == {0, 9}
SeqInitStreaks == {0, 6, 9, 59}

-----------------------------------------------------------------------------
(* Program constants *)

MinutesPerHour == 60
MinutesPerDay == 1440
\* zoneinfo.ZoneInfo("Asia/Tokyo"): UTC+09:00, no daylight saving
JSTOffsetMinutes == 540
\* get_study_date: hours before this one count for the previous day
GraceHour == 3
\* callback: the streak from which Riga is awarded
RewardThreshold == 7
\* callback: potential_riga = new_streak - 6
RewardOffset == 6
\* callback: min(potential_riga, 50)
RewardCap == 50
\* callback: the award of a second or later record of the day
RepeatReward == 1
\* send: the '1970-01-01' last_study_date of a row created for a recipient
SentinelDate == 0
ReminderHour == 22
ReminderMinute == 0

Min(a, b) == IF a < b THEN a ELSE b

-----------------------------------------------------------------------------
(* Time *)

\* current_time_utc.astimezone(JST): the local wall time, in minutes since
\* 1970-01-01T00:00 local
astimezone_JST(t_utc) == t_utc + JSTOffsetMinutes

\* datetime.date() and datetime.hour of a local time
DateOf(t_local) == t_local \div MinutesPerDay
HourOf(t_local) == (t_local % MinutesPerDay) \div MinutesPerHour

\* (mutant) current_time_jst.hour <= 3: the hour from 03:00 still belongs to
\* the day before
get_study_date_shifted(current_time_jst) ==
    IF HourOf(current_time_jst) <= GraceHour
    THEN DateOf(current_time_jst) - 1
    ELSE DateOf(current_time_jst)

get_study_date(current_time_jst) ==
    IF HourOf(current_time_jst) < GraceHour
    THEN DateOf(current_time_jst) - 1
    ELSE DateOf(current_time_jst)

\* the logical study day of an instant, as callback computes it
StudyDateAt(t_utc) == get_study_date(astimezone_JST(t_utc))

\* the instant (UTC) of a local date and time of day
JSTInstant(day, hh, mm) ==
    day * MinutesPerDay + hh * MinutesPerHour + mm - JSTOffsetMinutes

\* the instants at which the clock is observed: either side of the 03:00
\* boundary of StartDay (study dates StartDay - 1 and StartDay) and the next
\* day (study date StartDay + 1)
Instants ==
    { JSTInstant(StartDay, 2, 59), JSTInstant(StartDay, 3, 0),
      JSTInstant(StartDay + 1, 3, 0) }

StartInstant == JSTInstant(StartDay, 2, 59)

-----------------------------------------------------------------------------
(* Rows *)

Row(s, d, b) ==
    [present |-> TRUE, current_streak |-> s, last_study_date |-> d,
     riga_coin_balance |-> b]

\* the result of a SELECT that finds no row
NoRow ==
    [present |-> FALSE, current_streak |-> 0, last_study_date |-> 0,
     riga_coin_balance |-> 0]

NoWrites == [u \in {} |-> NoRow]

\* what a statement of connection p sees of the row of u
View(p, u) == IF u \in DOMAIN writes[p] THEN writes[p][u] ELSE user_stats[u]

\* the row of u is locked by an open transaction of another connection
LockedByOther(p, u) == \E q \in Procs \ {p} : u \in DOMAIN writes[q]

\* writes[p] with the row of u replaced
WithWrite(p, u, row) ==
    [v \in DOMAIN writes[p] \cup {u} |-> IF v = u THEN row ELSE writes[p][v]]

-----------------------------------------------------------------------------
(* update_streak and the first-of-day test of callback *)

\* SELECT last_study_date FROM user_stats WHERE user_id = %s
SelectLastStudyDate(row) ==
    IF row.present THEN Row(0, row.last_study_date, 0) ELSE NoRow

\* SELECT current_streak, last_study_date FROM user_stats WHERE user_id = %s
SelectStreak(row) ==
    IF row.present THEN Row(row.current_streak, row.last_study_date, 0) ELSE NoRow

\* SELECT riga_coin_balance FROM user_stats WHERE user_id = %s
SelectBalance(row) ==
    IF row.present THEN Row(0, 0, row.riga_coin_balance) ELSE NoRow

\* (mutant) (study_date - result[0]).days > 1: the day after the last study
\* date does not count as a new day
is_first_record_of_day_strict(result, study_date) ==
    \/ ~result.present
    \/ study_date - result.last_study_date > 1

\* callback: not result or (study_date - result[0]).days >= 1
is_first_record_of_day(result, study_date) ==
    \/ ~result.present
    \/ study_date - result.last_study_date >= 1

\* (mutant) a gap of more than one day continues the streak
new_streak_of_no_reset(result, study_date) ==
    IF result.present
    THEN LET last_streak == result.current_streak
             days_diff == study_date - result.last_study_date
         IN  IF days_diff >= 1 THEN last_streak + 1
             ELSE IF days_diff = 0 THEN last_streak
             ELSE 1
    ELSE 1

\* update_streak: the streak computed from the row it read
new_streak_of(result, study_date) ==
    IF result.present
    THEN LET last_streak == result.current_streak
             days_diff == study_date - result.last_study_date
         IN  IF days_diff = 1 THEN last_streak + 1
             ELSE IF days_diff = 0 THEN last_streak
             ELSE 1
    ELSE 1

\* (mutant) INSERT ... ON CONFLICT replaced by a REPLACE of the whole row:
\* the balance falls back to the column default
upsert_streak_resets_balance(row, new_streak, study_date) ==
    Row(new_streak, study_date, 0)

\* (mutant) the update of an existing row leaves last_study_date as it was
upsert_streak_keeps_date(row, new_streak, study_date) ==
    IF row.present
    THEN [row EXCEPT !.current_streak = new_streak]
    ELSE Row(new_streak, study_date, 0)

\* update_streak: INSERT ... ON CONFLICT (user_id) DO UPDATE SET current_streak,
\* last_study_date.  A new row takes the column default of riga_coin_balance.
upsert_streak(row, new_streak, study_date) ==
    IF row.present
    THEN [row EXCEPT !.current_streak = new_streak, !.last_study_date = study_date]
    ELSE Row(new_streak, study_date, 0)

-----------------------------------------------------------------------------
(* The award of callback and add_riga_coins *)

\* (mutant) the award of the first record of the day is not capped
riga_to_add_uncapped(new_streak, is_first) ==
    IF is_first THEN new_streak - RewardOffset ELSE RepeatReward

\* callback: the amount passed to add_riga_coins when new_streak >= 7
riga_to_add(new_streak, is_first) ==
    IF is_first
    THEN Min(new_streak - RewardOffset, RewardCap)
    ELSE RepeatReward

\* callback: riga_awarded when the handler is through
riga_awarded(new_streak, is_first) ==
    IF new_streak >= RewardThreshold THEN riga_to_add(new_streak, is_first) ELSE 0

\* add_riga_coins: UPDATE user_stats SET riga_coin_balance = riga_coin_balance + %s
add_riga_coins(row, amount_to_add) ==
    [row EXCEPT !.riga_coin_balance = @ + amount_to_add]

-----------------------------------------------------------------------------
(* send *)

\* (mutant) the self-transfer check is missing
send_precheck_no_self(sender_id, recipient_id, amount) ==
    IF amount <= 0 THEN "invalid_amount" ELSE "proceed"

\* send: the checks made before the database is touched
send_precheck(sender_id, recipient_id, amount) ==
    IF sender_id = recipient_id THEN "self_transfer"
    ELSE IF amount <= 0 THEN "invalid_amount"
    ELSE "proceed"

\* send: not sender_balance or sender_balance[0] < amount
insufficient(sender_balance, amount) ==
    \/ ~sender_balance.present
    \/ sender_balance.riga_coin_balance < amount

\* send: UPDATE user_stats SET riga_coin_balance = riga_coin_balance - %s
debit(row, amount) ==
    IF row.present THEN [row EXCEPT !.riga_coin_balance = @ - amount] ELSE row

\* (mutant) VALUES (%s, 0, '1970-01-01', 0): the created row holds nothing
credit_new_row_empty(row, amount) ==
    IF row.present
    THEN [row EXCEPT !.riga_coin_balance = @ + amount]
    ELSE Row(0, SentinelDate, 0)

\* (mutant) DO UPDATE SET riga_coin_balance = EXCLUDED.riga_coin_balance: the
\* credit overwrites what the recipient holds
credit_overwrite(row, amount) ==
    IF row.present
    THEN [row EXCEPT !.riga_coin_balance = amount]
    ELSE Row(0, SentinelDate, amount)

\* send: INSERT ... VALUES (%s, 0, '1970-01-01', %s) ON CONFLICT (user_id)
\* DO UPDATE SET riga_coin_balance = user_stats.riga_coin_balance + %s
credit(row, amount) ==
    IF row.present
    THEN [row EXCEPT !.riga_coin_balance = @ + amount]
    ELSE Row(0, SentinelDate, amount)

-----------------------------------------------------------------------------
(* Transactions *)

\* the table user_stats after connection p commits
committed_rows(p) ==
    [u \in Users |-> IF u \in DOMAIN writes[p] THEN writes[p][u] ELSE user_stats[u]]

\* the table learning_records after connection p commits
committed_records(p) == learning_records (+) inserts[p]

\* (mutant) statements take effect one by one: what ran before the failure stays
rolled_back_rows_autocommit(p) == committed_rows(p)

\* (mutant) the study record inserted before the failure stays
rolled_back_records_autocommit(p) == committed_records(p)

\* (mutant) the connection is left open without a commit: the handler ends,
\* the transaction stays idle and keeps its row locks
Commit_left_open(p) ==
    UNCHANGED <<user_stats, learning_records, writes, inserts>>

\* the tables after the transaction of connection p is rolled back
rolled_back_rows(p) == user_stats
rolled_back_records(p) == learning_records

Commit(p) ==
    /\ user_stats' = committed_rows(p)
    /\ learning_records' = committed_records(p)
    /\ writes' = [writes EXCEPT ![p] = NoWrites]
    /\ inserts' = [inserts EXCEPT ![p] = EmptyBag]

Rollback(p) ==
    /\ user_stats' = rolled_back_rows(p)
    /\ learning_records' = rolled_back_records(p)
    /\ writes' = [writes EXCEPT ![p] = NoWrites]
    /\ inserts' = [inserts EXCEPT ![p] = EmptyBag]

-----------------------------------------------------------------------------
(* Handlers *)

Idle ==
    [op |-> "none", pc |-> "idle", user |-> "", recipient |-> "", amount |-> 0,
     at |-> 0, study_date |-> 0, result |-> NoRow, is_first |-> FALSE,
     streak_result |-> NoRow, new_streak |-> 0, riga_awarded |-> 0,
     outcome |-> "none", error |-> ""]

Free(p) == h[p].pc \in {"idle", "done"}
InFlight(p) == ~Free(p)

\* connections are interchangeable: a new handler takes the first free one
FirstFree(p) == Free(p) /\ \A q \in Procs : q < p => InFlight(q)

\* a handler that has entered its except clause, which prints the exception
\* and then awaits the sending of the error message; riga_awarded tells
\* whether the balance increment had run when the exception came, outcome
\* what the user has been answered already
Failed(call, exception) ==
    [Idle EXCEPT !.op = call.op, !.pc = "answer_error", !.user = call.user,
                 !.recipient = call.recipient, !.amount = call.amount,
                 !.riga_awarded = call.riga_awarded,
                 !.outcome = call.outcome,
                 !.error = exception]

\* an await outside `try` raises (discord.HTTPException): the exception
\* leaves the handler, nothing is printed and the user gets no answer
LeftByException(call) ==
    [call EXCEPT !.pc = "done", !.outcome = "unanswered", !.error = "HTTPException"]

\* the row the next statement of connection p has to lock
NeedsRow(p) ==
    CASE h[p].pc = "upsert" -> {h[p].user}
      [] h[p].pc = "add_coins" -> {h[p].user}
      [] h[p].pc = "debit" -> {h[p].user}
      [] h[p].pc = "credit" -> {h[p].recipient}
      [] OTHER -> {}

\* connection p waits for a row lock that connection q holds
WaitsFor(p, q) == p # q /\ NeedsRow(p) \cap DOMAIN writes[q] # {}

-----------------------------------------------------------------------------
(* StudyButton.callback *)

\* callback is invoked and awaits interaction.response.defer(), before
\* `try`: when that raises the exception leaves callback; otherwise callback
\* reads the clock and resolves the study date
StudyStart(p, u) ==
    /\ FirstFree(p)
    /\ nops' = nops + 1
    /\ \E deferred \in BOOLEAN :
          LET call == [Idle EXCEPT !.op = "study", !.user = u]
          IN  h' = [h EXCEPT ![p] =
                       IF deferred
                       THEN [call EXCEPT !.pc = "select_last", !.at = now,
                                         !.study_date = StudyDateAt(now)]
                       ELSE LeftByException(call)]
    /\ UNCHANGED <<now, user_stats, learning_records, writes, inserts, reminded>>

\* callback: SELECT last_study_date, and the first-of-day flag
CallbackSelect(p) ==
    /\ h[p].pc = "select_last"
    /\ LET result == SelectLastStudyDate(View(p, h[p].user))
       IN  h' = [h EXCEPT ![p].pc = "save_record",
                          ![p].result = result,
                          ![p].is_first = is_first_record_of_day(result, h[p].study_date)]
    /\ UNCHANGED <<now, user_stats, learning_records, writes, inserts, nops, reminded>>

\* save_record: INSERT INTO learning_records
SaveRecord(p) ==
    /\ h[p].pc = "save_record"
    /\ inserts' = [inserts EXCEPT ![p] = @ (+) SetToBag({<<h[p].user, h[p].at>>})]
    /\ h' = [h EXCEPT ![p].pc = "streak_select"]
    /\ UNCHANGED <<now, user_stats, learning_records, writes, nops, reminded>>

\* update_streak: SELECT current_streak, last_study_date, and the new streak
UpdateStreakSelect(p) ==
    /\ h[p].pc = "streak_select"
    /\ LET result == SelectStreak(View(p, h[p].user))
       IN  h' = [h EXCEPT ![p].pc = "upsert",
                          ![p].streak_result = result,
                          ![p].new_streak = new_streak_of(result, h[p].study_date)]
    /\ UNCHANGED <<now, user_stats, learning_records, writes, inserts, nops, reminded>>

\* update_streak: the upsert; it waits while another transaction holds the row
UpdateStreakUpsert(p) ==
    /\ h[p].pc = "upsert"
    /\ ~LockedByOther(p, h[p].user)
    /\ writes' = [writes EXCEPT ![p] =
                    WithWrite(p, h[p].user,
                              upsert_streak(View(p, h[p].user), h[p].new_streak,
                                            h[p].study_date))]
    /\ h' = [h EXCEPT ![p].pc =
                IF h[p].new_streak >= RewardThreshold THEN "add_coins" ELSE "commit"]
    /\ UNCHANGED <<now, user_stats, learning_records, inserts, nops, reminded>>

\* callback: add_riga_coins with the amount of the branch taken
AddRigaCoins(p) ==
    /\ h[p].pc = "add_coins"
    /\ ~LockedByOther(p, h[p].user)
    /\ LET amount == riga_to_add(h[p].new_streak, h[p].is_first)
       IN  /\ writes' = [writes EXCEPT ![p] =
                           WithWrite(p, h[p].user,
                                     add_riga_coins(View(p, h[p].user), amount))]
           /\ h' = [h EXCEPT ![p].pc = "commit", ![p].riga_awarded = amount]
    /\ UNCHANGED <<now, user_stats, learning_records, inserts, nops, reminded>>

\* callback leaves `with psycopg.connect(...)`: the transaction commits;
\* the answer to the user is still to be sent
StudyCommit(p) ==
    /\ h[p].op = "study"
    /\ h[p].pc = "commit"
    /\ Commit(p)
    /\ h' = [h EXCEPT ![p].pc = "answer"]
    /\ UNCHANGED <<now, nops, reminded>>

\* callback: await interaction.followup.send(message), after the commit
StudyAnswer(p) ==
    /\ h[p].op = "study"
    /\ h[p].pc = "answer"
    /\ h' = [h EXCEPT ![p].pc = "done", ![p].outcome = "ok"]
    /\ UNCHANGED <<now, user_stats, learning_records, writes, inserts, nops, reminded>>

-----------------------------------------------------------------------------
(* send *)

\* send is invoked: a self transfer or an amount <= 0 is answered at once
\* by await interaction.response.send_message(...); otherwise send awaits
\* interaction.response.defer().  Both awaits stand before `try`: when the
\* one that is made raises, the exception leaves send.
SendStart(p, sender_id, recipient_id, amount) ==
    /\ FirstFree(p)
    /\ nops' = nops + 1
    /\ \E answered \in BOOLEAN :
          LET verdict == send_precheck(sender_id, recipient_id, amount)
              call == [Idle EXCEPT !.op = "send", !.user = sender_id,
                                   !.recipient = recipient_id, !.amount = amount]
          IN  h' = [h EXCEPT ![p] =
                       IF ~answered THEN LeftByException(call)
                       ELSE IF verdict = "proceed"
                       THEN [call EXCEPT !.pc = "select_balance"]
                       ELSE [call EXCEPT !.pc = "done", !.outcome = verdict]]
    /\ UNCHANGED <<now, user_stats, learning_records, writes, inserts, reminded>>

\* send: SELECT riga_coin_balance of the sender; with insufficient funds the
\* handler goes on to answer so, its transaction still open
SendSelectBalance(p) ==
    /\ h[p].pc = "select_balance"
    /\ LET sender_balance == SelectBalance(View(p, h[p].user))
       IN  h' = [h EXCEPT ![p].result = sender_balance,
                          ![p].pc = IF insufficient(sender_balance, h[p].amount)
                                    THEN "answer_insufficient" ELSE "debit"]
    /\ UNCHANGED <<now, user_stats, learning_records, writes, inserts, nops, reminded>>

\* send: await interaction.followup.send(...) of the insufficient balance
\* inside `with conn.transaction()`: the message is delivered, the
\* transaction is still open
SendAnswerInsufficient(p) ==
    /\ h[p].pc = "answer_insufficient"
    /\ h' = [h EXCEPT ![p].pc = "return", ![p].outcome = "insufficient"]
    /\ UNCHANGED <<now, user_stats, learning_records, writes, inserts, nops, reminded>>

\* send: return after the insufficient answer leaves the with blocks: the
\* transaction, which has written nothing, is committed
SendReturn(p) ==
    /\ h[p].pc = "return"
    /\ Commit(p)
    /\ h' = [h EXCEPT ![p].pc = "done"]
    /\ UNCHANGED <<now, nops, reminded>>

\* send: the UPDATE of the sender's row; it waits while another transaction holds it
SendDebit(p) ==
    /\ h[p].pc = "debit"
    /\ ~LockedByOther(p, h[p].user)
    /\ writes' = [writes EXCEPT ![p] =
                    WithWrite(p, h[p].user, debit(View(p, h[p].user), h[p].amount))]
    /\ h' = [h EXCEPT ![p].pc = "credit"]
    /\ UNCHANGED <<now, user_stats, learning_records, inserts, nops, reminded>>

\* send: the upsert of the recipient's row; it waits while another transaction holds it
SendCredit(p) ==
    /\ h[p].pc = "credit"
    /\ ~LockedByOther(p, h[p].recipient)
    /\ writes' = [writes EXCEPT ![p] =
                    WithWrite(p, h[p].recipient,
                              credit(View(p, h[p].recipient), h[p].amount))]
    /\ h' = [h EXCEPT ![p].pc = "commit"]
    /\ UNCHANGED <<now, user_stats, learning_records, inserts, nops, reminded>>

\* send leaves `with conn.transaction()`: the transaction commits; the
\* answer to the user is still to be sent
SendCommit(p) ==
    /\ h[p].op = "send"
    /\ h[p].pc = "commit"
    /\ Commit(p)
    /\ h' = [h EXCEPT ![p].pc = "answer"]
    /\ UNCHANGED <<now, nops, reminded>>

\* send: await interaction.followup.send(...) of the transfer made, after
\* the commit
SendAnswer(p) ==
    /\ h[p].op = "send"
    /\ h[p].pc = "answer"
    /\ h' = [h EXCEPT ![p].pc = "done", ![p].outcome = "sent"]
    /\ UNCHANGED <<now, user_stats, learning_records, writes, inserts, nops, reminded>>

-----------------------------------------------------------------------------
(* Failures *)

\* the handler's next call inside `try` raises: a statement or the commit
\* (the connection is lost, the server goes down), or the sending of the
\* answer (discord.HTTPException).  An open transaction is rolled back; one
\* that is committed stays committed.  The handler enters its except clause.
Fail(p) ==
    /\ InFlight(p)
    /\ h[p].pc # "answer_error"
    /\ Rollback(p)
    /\ h' = [h EXCEPT ![p] =
                Failed(h[p], IF h[p].pc \in {"answer", "answer_insufficient"}
                             THEN "HTTPException" ELSE "OperationalError")]
    /\ UNCHANGED <<now, nops, reminded>>

\* two transactions wait for each other's row lock: the database ends one of
\* them with a deadlock error, which takes the handler to its except clause
DeadlockAbort(p) ==
    /\ InFlight(p)
    /\ \E q \in Procs : WaitsFor(p, q) /\ WaitsFor(q, p)
    /\ Rollback(p)
    /\ h' = [h EXCEPT ![p] = Failed(h[p], "DeadlockDetected")]
    /\ UNCHANGED <<now, nops, reminded>>

\* the except clause: await interaction.followup.send(<error message>); a
\* transfer whose insufficient answer was delivered before the exception
\* has then answered twice
AnswerError(p) ==
    /\ h[p].pc = "answer_error"
    /\ h' = [h EXCEPT ![p].pc = "done",
                       ![p].outcome = IF h[p].outcome = "insufficient"
                                      THEN "insufficient+error" ELSE "error"]
    /\ UNCHANGED <<now, user_stats, learning_records, writes, inserts, nops, reminded>>

\* the sending of the error message raises too: the exception leaves the
\* handler and the user gets no answer beyond the one delivered before
AnswerErrorRaises(p) ==
    /\ h[p].pc = "answer_error"
    /\ h' = [h EXCEPT ![p].pc = "done",
                       ![p].outcome = IF h[p].outcome = "insufficient"
                                      THEN "insufficient" ELSE "unanswered"]
    /\ UNCHANGED <<now, user_stats, learning_records, writes, inserts, nops, reminded>>

-----------------------------------------------------------------------------
(* The clock *)

Tick ==
    /\ \E t \in Instants : t > now /\ now' = t
    /\ UNCHANGED <<user_stats, learning_records, writes, inserts, h, nops, reminded>>

-----------------------------------------------------------------------------
(* check_for_reminders, the task that runs every day at reminder_time *)

\* reminder_time = datetime.time(hour=22, minute=0, tzinfo=JST), as the minute
\* of the local day
reminder_time == ReminderHour * MinutesPerHour + ReminderMinute

\* no run of the task yet
NoSweep ==
    [ran |-> FALSE, at |-> 0, pc |-> "idle", outcome |-> "none", queried |-> FALSE,
     previous_study_day |-> 0, users_to_remind_ids |-> {}, user |-> "",
     mentioned |-> {}, not_found |-> {}]

\* (mutant) current_study_date - datetime.timedelta(days=2)
previous_study_day_of_two(current_study_date) == current_study_date - 2

\* previous_study_day = current_study_date - datetime.timedelta(days=1)
previous_study_day_of(current_study_date) == current_study_date - 1

\* (mutant) WHERE last_study_date <= %s
users_to_remind_ids_up_to(rows, previous_study_day) ==
    { u \in Users : rows[u].present /\ rows[u].last_study_date <= previous_study_day }

\* SELECT user_id FROM user_stats WHERE last_study_date = %s
users_to_remind_ids(rows, previous_study_day) ==
    { u \in Users : rows[u].present /\ rows[u].last_study_date = previous_study_day }

\* the task starts, at reminder_time and once for that time: without the
\* channel it returns at once; otherwise it resolves the study date of the
\* moment and queries the committed table on a connection of its own.  The
\* query may raise; with an empty result the task returns, leaving the
\* connection block; otherwise the users of the result are still to be
\* mentioned.
CheckForReminders ==
    /\ astimezone_JST(now) % MinutesPerDay = reminder_time
    /\ reminded.pc \in {"idle", "done"}
    /\ ~(reminded.ran /\ reminded.at = now)
    /\ \E outcome \in {"no_channel", "error", "query"} :
          LET current_study_date == get_study_date(astimezone_JST(now))
              previous_study_day == previous_study_day_of(current_study_date)
              ids == users_to_remind_ids(user_stats, previous_study_day)
              run == [NoSweep EXCEPT !.ran = TRUE, !.at = now]
          IN  reminded' =
                 IF outcome = "query"
                 THEN [run EXCEPT !.queried = TRUE,
                                  !.previous_study_day = previous_study_day,
                                  !.users_to_remind_ids = ids,
                                  !.pc = IF ids = {} THEN "leave" ELSE "fetch_user"]
                 ELSE [run EXCEPT !.pc = "done", !.outcome = outcome]
    /\ UNCHANGED <<now, user_stats, learning_records, writes, inserts, h, nops>>

\* the position of the task after an iteration of its loop: the next
\* iteration, or the end of the connection block after the last one
after_iteration(ids, mentioned, not_found) ==
    IF mentioned \cup not_found = ids THEN "leave" ELSE "fetch_user"

\* the task's loop over the result, first await of an iteration: await
\* bot.fetch_user(user_id) returns the user, or raises discord.NotFound
\* and the user is skipped
SweepFetchUser ==
    /\ reminded.pc = "fetch_user"
    /\ \E user_id \in reminded.users_to_remind_ids
                        \ (reminded.mentioned \cup reminded.not_found) :
       \E found \in BOOLEAN :
          reminded' =
             IF found
             THEN [reminded EXCEPT !.user = user_id, !.pc = "send"]
             ELSE LET not_found == reminded.not_found \cup {user_id}
                  IN  [reminded EXCEPT
                          !.not_found = not_found,
                          !.pc = after_iteration(reminded.users_to_remind_ids,
                                                 reminded.mentioned, not_found)]
    /\ UNCHANGED <<now, user_stats, learning_records, writes, inserts, h, nops>>

\* second await of the iteration: await channel.send(...) mentions the
\* fetched user, or raises discord.NotFound, which the same except clause
\* takes for a user not found
SweepSend ==
    /\ reminded.pc = "send"
    /\ \E delivered \in BOOLEAN :
          LET mentioned == IF delivered THEN reminded.mentioned \cup {reminded.user}
                                        ELSE reminded.mentioned
              not_found == IF delivered THEN reminded.not_found
                                        ELSE reminded.not_found \cup {reminded.user}
          IN  reminded' = [reminded EXCEPT
                              !.user = "",
                              !.mentioned = mentioned,
                              !.not_found = not_found,
                              !.pc = after_iteration(reminded.users_to_remind_ids,
                                                     mentioned, not_found)]
    /\ UNCHANGED <<now, user_stats, learning_records, writes, inserts, h, nops>>

\* the task leaves `with psycopg.connect(...)` after the loop (or by the
\* return on an empty result): the connection commits and the run ends
SweepLeave ==
    /\ reminded.pc = "leave"
    /\ reminded' = [reminded EXCEPT !.pc = "done", !.outcome = "swept"]
    /\ UNCHANGED <<now, user_stats, learning_records, writes, inserts, h, nops>>

\* fetch_user or channel.send raises another exception, or the commit on
\* leaving the connection block raises: the outer except clause prints it;
\* the users not mentioned so far are not mentioned
SweepFails ==
    /\ reminded.pc \in {"fetch_user", "send", "leave"}
    /\ reminded' = [reminded EXCEPT !.user = "", !.pc = "done", !.outcome = "error"]
    /\ UNCHANGED <<now, user_stats, learning_records, writes, inserts, h, nops>>

-----------------------------------------------------------------------------
(* Initial states: each user has no row, or has studied once a day (at noon) *)
(* on each of the s days up to the day before the first study date of the   *)
(* behaviour, and holds the Riga awarded for that.                          *)

LastDay0 == StudyDateAt(StartInstant) - 1

RECURSIVE AwardsUpTo(_)
AwardsUpTo(s) == IF s <= 0 THEN 0 ELSE AwardsUpTo(s - 1) + riga_awarded(s, TRUE)

InitRow(s) == IF s = 0 THEN NoRow ELSE Row(s, LastDay0, AwardsUpTo(s))

InitRecords(u, s) ==
    { <<u, JSTInstant(d, 12, 0)>> : d \in (LastDay0 - s + 1) .. LastDay0 }

InitFromAt(streak_choices, instants) ==
    /\ now \in instants
    /\ \E streaks \in [Users -> streak_choices] :
          /\ user_stats = [u \in Users |-> InitRow(streaks[u])]
          /\ learning_records =
                SetToBag(UNION { InitRecords(u, streaks[u]) : u \in Users })
    /\ writes = [p \in Procs |-> NoWrites]
    /\ inserts = [p \in Procs |-> EmptyBag]
    /\ h = [p \in Procs |-> Idle]
    /\ nops = 0
    /\ reminded = NoSweep

InitFrom(streak_choices) == InitFromAt(streak_choices, {StartInstant})

Init == InitFrom(InitStreaks)

Next ==
    \/ \E p \in Procs, u \in Users : nops < MaxOps /\ StudyStart(p, u)
    \/ \E p \in Procs : CallbackSelect(p)
    \/ \E p \in Procs : SaveRecord(p)
    \/ \E p \in Procs : UpdateStreakSelect(p)
    \/ \E p \in Procs : UpdateStreakUpsert(p)
    \/ \E p \in Procs : AddRigaCoins(p)
    \/ \E p \in Procs : StudyCommit(p)
    \/ \E p \in Procs : StudyAnswer(p)
    \/ \E p \in Procs, s \in Users, r \in Users, a \in Amounts :
          nops < MaxOps /\ SendStart(p, s, r, a)
    \/ \E p \in Procs : SendSelectBalance(p)
    \/ \E p \in Procs : SendAnswerInsufficient(p)
    \/ \E p \in Procs : SendReturn(p)
    \/ \E p \in Procs : SendDebit(p)
    \/ \E p \in Procs : SendCredit(p)
    \/ \E p \in Procs : SendCommit(p)
    \/ \E p \in Procs : SendAnswer(p)
    \/ \E p \in Procs : Fail(p)
    \/ \E p \in Procs : AnswerError(p)
    \/ \E p \in Procs : AnswerErrorRaises(p)
    \/ \E p \in Procs : DeadlockAbort(p)
    \/ Tick

\* handlers of any number of connections, interleaved statement by statement
Spec == Init /\ [][Next]_vars

-----------------------------------------------------------------------------
(* The same handlers, MaxPairOps invocations of them, at one instant: the    *)
(* behaviour starts at any of the instants and the clock stands still       *)

PairInit == InitFromAt(InitStreaks, Instants)

PairNext ==
    \/ \E p \in Procs, u \in Users : nops < MaxPairOps /\ StudyStart(p, u)
    \/ \E p \in Procs : CallbackSelect(p)
    \/ \E p \in Procs : SaveRecord(p)
    \/ \E p \in Procs : UpdateStreakSelect(p)
    \/ \E p \in Procs : UpdateStreakUpsert(p)
    \/ \E p \in Procs : AddRigaCoins(p)
    \/ \E p \in Procs : StudyCommit(p)
    \/ \E p \in Procs : StudyAnswer(p)
    \/ \E p \in Procs, s \in Users, r \in Users, a \in Amounts :
          nops < MaxPairOps /\ SendStart(p, s, r, a)
    \/ \E p \in Procs : SendSelectBalance(p)
    \/ \E p \in Procs : SendAnswerInsufficient(p)
    \/ \E p \in Procs : SendReturn(p)
    \/ \E p \in Procs : SendDebit(p)
    \/ \E p \in Procs : SendCredit(p)
    \/ \E p \in Procs : SendCommit(p)
    \/ \E p \in Procs : SendAnswer(p)
    \/ \E p \in Procs : Fail(p)
    \/ \E p \in Procs : AnswerError(p)
    \/ \E p \in Procs : AnswerErrorRaises(p)
    \/ \E p \in Procs : DeadlockAbort(p)

PairSpec == PairInit /\ [][PairNext]_vars

-----------------------------------------------------------------------------
(* One handler at a time: a handler starts only when no other is running *)

AllFree == \A p \in Procs : Free(p)

SeqInit == InitFrom(SeqInitStreaks)

SeqNext ==
    \/ \E p \in Procs, u \in Users : nops < SeqMaxOps /\ AllFree /\ StudyStart(p, u)
    \/ \E p \in Procs : CallbackSelect(p)
    \/ \E p \in Procs : SaveRecord(p)
    \/ \E p \in Procs : UpdateStreakSelect(p)
    \/ \E p \in Procs : UpdateStreakUpsert(p)
    \/ \E p \in Procs : AddRigaCoins(p)
    \/ \E p \in Procs : StudyCommit(p)
    \/ \E p \in Procs : StudyAnswer(p)
    \/ \E p \in Procs, s \in Users, r \in Users, a \in Amounts :
          nops < SeqMaxOps /\ AllFree /\ SendStart(p, s, r, a)
    \/ \E p \in Procs : SendSelectBalance(p)
    \/ \E p \in Procs : SendAnswerInsufficient(p)
    \/ \E p \in Procs : SendReturn(p)
    \/ \E p \in Procs : SendDebit(p)
    \/ \E p \in Procs : SendCredit(p)
    \/ \E p \in Procs : SendCommit(p)
    \/ \E p \in Procs : SendAnswer(p)
    \/ \E p \in Procs : Fail(p)
    \/ \E p \in Procs : AnswerError(p)
    \/ \E p \in Procs : AnswerErrorRaises(p)
    \/ Tick

SeqSpec == SeqInit /\ [][SeqNext]_vars

-----------------------------------------------------------------------------
(* Two transfers and nothing else: at most two invocations of send, no      *)
(* exception other than the database's deadlock error (every await before   *)
(* `try` returns, and so does the error answer of the except clause)        *)

TransferNext ==
    \/ \E p \in Procs, s \in Users, r \in Users, a \in Amounts :
          nops < MaxTransfers /\ SendStart(p, s, r, a) /\ h'[p].error = ""
    \/ \E p \in Procs : SendSelectBalance(p)
    \/ \E p \in Procs : SendAnswerInsufficient(p)
    \/ \E p \in Procs : SendReturn(p)
    \/ \E p \in Procs : SendDebit(p)
    \/ \E p \in Procs : SendCredit(p)
    \/ \E p \in Procs : SendCommit(p)
    \/ \E p \in Procs : SendAnswer(p)
    \/ \E p \in Procs : DeadlockAbort(p)
    \/ \E p \in Procs : AnswerError(p)

TransferSpec == Init /\ [][TransferNext]_vars

-----------------------------------------------------------------------------
(* Day after day: one user without a row presses the button at most twice   *)
(* on a study date, one handler at a time, over MaxDays days; every event   *)
(* gets past its defer (one that does not leaves no trace)                  *)

DailyUser == "u1"
EventsBefore == {0, 1}

\* the study records of user u with study date d, as a bag
RecordsOn(records, u, d) ==
    [r \in { x \in BagToSet(records) : x[1] = u /\ StudyDateAt(x[2]) = d }
        |-> records[r]]

\* the clock moves on by exactly one day
DayTick ==
    /\ AllFree
    /\ now + MinutesPerDay <= StartInstant + (MaxDays - 1) * MinutesPerDay
    /\ now' = now + MinutesPerDay
    /\ UNCHANGED <<user_stats, learning_records, writes, inserts, h, nops, reminded>>

DailyInit == InitFrom({0})

DailyNext ==
    \/ \E p \in Procs :
          /\ AllFree
          /\ BagCardinality(RecordsOn(learning_records, DailyUser,
                                      StudyDateAt(now))) \in EventsBefore
          /\ StudyStart(p, DailyUser)
          /\ InFlight(p)'
    \/ \E p \in Procs : CallbackSelect(p)
    \/ \E p \in Procs : SaveRecord(p)
    \/ \E p \in Procs : UpdateStreakSelect(p)
    \/ \E p \in Procs : UpdateStreakUpsert(p)
    \/ \E p \in Procs : AddRigaCoins(p)
    \/ \E p \in Procs : StudyCommit(p)
    \/ \E p \in Procs : StudyAnswer(p)
    \/ DayTick

DailySpec == DailyInit /\ [][DailyNext]_vars

-----------------------------------------------------------------------------
(* Round the clock: study events invoked at the first and the last minute   *)
(* of every hour of two days                                                *)

ClockInstants ==
    { JSTInstant(day, hh, mm) :
        day \in {StartDay, StartDay + 1}, hh \in 0 .. 23, mm \in {0, 59} }

ClockInit == InitFromAt(InitStreaks, ClockInstants)

ClockNext ==
    \/ \E p \in Procs, u \in Users :
          nops < MaxClockOps /\ AllFree /\ StudyStart(p, u)
    \/ \E p \in Procs : CallbackSelect(p)
    \/ \E p \in Procs : SaveRecord(p)
    \/ \E p \in Procs : UpdateStreakSelect(p)
    \/ \E p \in Procs : UpdateStreakUpsert(p)
    \/ \E p \in Procs : AddRigaCoins(p)
    \/ \E p \in Procs : StudyCommit(p)
    \/ \E p \in Procs : StudyAnswer(p)

ClockSpec == ClockInit /\ [][ClockNext]_vars

-----------------------------------------------------------------------------
(* The reminder task beside study events (transfers leave last_study_date   *)
(* alone): the clock passes reminder_time of two days; study events come    *)
(* one at a time, each of them running beside the task's query and mentions *)

ReminderInstants ==
    Instants \cup { JSTInstant(StartDay, ReminderHour, ReminderMinute),
                    JSTInstant(StartDay + 1, ReminderHour, ReminderMinute) }

ReminderTick ==
    /\ \E t \in ReminderInstants : t > now /\ now' = t
    /\ UNCHANGED <<user_stats, learning_records, writes, inserts, h, nops, reminded>>

ReminderNext ==
    \/ \E p \in Procs, u \in Users : nops < MaxReminderOps /\ AllFree /\ StudyStart(p, u)
    \/ \E p \in Procs : CallbackSelect(p)
    \/ \E p \in Procs : SaveRecord(p)
    \/ \E p \in Procs : UpdateStreakSelect(p)
    \/ \E p \in Procs : UpdateStreakUpsert(p)
    \/ \E p \in Procs : AddRigaCoins(p)
    \/ \E p \in Procs : StudyCommit(p)
    \/ \E p \in Procs : StudyAnswer(p)
    \/ \E p \in Procs : Fail(p)
    \/ \E p \in Procs : AnswerError(p)
    \/ \E p \in Procs : AnswerErrorRaises(p)
    \/ ReminderTick
    \/ CheckForReminders
    \/ SweepFetchUser
    \/ SweepSend
    \/ SweepLeave
    \/ SweepFails

ReminderSpec == Init /\ [][ReminderNext]_vars

-----------------------------------------------------------------------------
(* Fair scheduling: a handler whose next statement can run does run it (the *)
(* event loop and the database serve every connection), and the database    *)
(* ends a deadlock; failures may happen but need not                        *)

\* the next statement or answer of handler p, or the database ending it in
\* a deadlock
Step(p) ==
    \/ CallbackSelect(p)
    \/ SaveRecord(p)
    \/ UpdateStreakSelect(p)
    \/ UpdateStreakUpsert(p)
    \/ AddRigaCoins(p)
    \/ StudyCommit(p)
    \/ StudyAnswer(p)
    \/ SendSelectBalance(p)
    \/ SendAnswerInsufficient(p)
    \/ SendReturn(p)
    \/ SendDebit(p)
    \/ SendCredit(p)
    \/ SendCommit(p)
    \/ SendAnswer(p)
    \/ DeadlockAbort(p)
    \/ AnswerError(p)

LiveNext ==
    \/ \E p \in Procs, u \in Users :
          nops < MaxLiveOps /\ StudyStart(p, u) /\ InFlight(p)'
    \/ \E p \in Procs, s \in Users, r \in Users, a \in Amounts :
          nops < MaxLiveOps /\ SendStart(p, s, r, a) /\ InFlight(p)'
    \/ \E p \in Procs : Step(p)
    \/ \E p \in Procs : Fail(p)
    \/ \E p \in Procs : AnswerErrorRaises(p)

\* the clock stands still: no statement waits for it; a handler that ends
\* where it starts (a precheck, an await before `try` that raises) is never
\* in flight and is left out
LiveSpec == Init /\ [][LiveNext]_vars /\ \A p \in Procs : WF_vars(Step(p))

-----------------------------------------------------------------------------
(* Vocabulary of the properties *)

\* the balance of a user in a version of the table (0 without a row)
Balance(rows, u) == IF rows[u].present THEN rows[u].riga_coin_balance ELSE 0

RECURSIVE SumBalances(_, _)
SumBalances(rows, S) ==
    IF S = {} THEN 0
    ELSE LET u == CHOOSE v \in S : TRUE
         IN  Balance(rows, u) + SumBalances(rows, S \ {u})

TotalBalance(rows) == SumBalances(rows, Users)

StudyOk(p) == h[p].op = "study" /\ h[p].pc = "done" /\ h[p].outcome = "ok"
SendDone(p) == h[p].op = "send" /\ h[p].pc = "done"
Sent(p) == SendDone(p) /\ h[p].outcome = "sent"
Rejections == {"self_transfer", "invalid_amount", "insufficient"}

\* the step commits the transaction of handler p
CommitsStudy(p) == h[p].op = "study" /\ h[p].pc = "commit" /\ h'[p].pc = "answer"
CommitsSend(p) == h[p].op = "send" /\ h[p].pc = "commit" /\ h'[p].pc = "answer"
\* the step is an exception in handler p, which takes it to its except clause
FailsIn(p) == InFlight(p) /\ h[p].pc # "answer_error" /\ h'[p].pc = "answer_error"
\* the step ends the transfer of handler p by a rejection
RejectsIn(p) ==
    /\ h'[p].op = "send" /\ h'[p].pc = "done" /\ h'[p].outcome \in Rejections
    /\ \/ Free(p) /\ nops' # nops
       \/ h[p].pc = "return"

-----------------------------------------------------------------------------
(* C1 *)

\* C1: in every reachable state every user's riga balance is >= 0, whatever
\* the interleaving of study events and transfers.
C1_BalanceNeverNegative ==
    \A u \in Users : user_stats[u].present => user_stats[u].riga_coin_balance >= 0

-----------------------------------------------------------------------------
(* C2 *)

\* C2: a transfer that commits debits the sender by exactly the amount and
\* credits the recipient by exactly the amount in one step of the committed
\* tables, a transfer that fails or is rejected changes no committed row, and
\* no step other than the commit of a study event changes the sum of all
\* balances.
C2_TransferAtomic ==
    [][ /\ \A p \in Procs :
              /\ CommitsSend(p) =>
                    /\ Balance(user_stats', h[p].user)
                          = Balance(user_stats, h[p].user) - h[p].amount
                    /\ Balance(user_stats', h[p].recipient)
                          = Balance(user_stats, h[p].recipient) + h[p].amount
                    /\ user_stats'[h[p].recipient].present
                    /\ \A u \in Users \ {h[p].user, h[p].recipient} :
                          user_stats'[u] = user_stats[u]
              /\ (h[p].op = "send" /\ (FailsIn(p) \/ RejectsIn(p))) =>
                    user_stats' = user_stats
        /\ (\A p \in Procs : ~CommitsStudy(p)) =>
              TotalBalance(user_stats') = TotalBalance(user_stats)
      ]_vars

\* one transfer has committed and another one stands between its debit and
\* its credit, with the debit not in the committed table
C2_Witness ==
    \E p, q \in Procs :
        /\ Sent(p)
        /\ h[q].op = "send" /\ h[q].pc = "credit"
        /\ h[q].user \in DOMAIN writes[q]
        /\ writes[q][h[q].user].riga_coin_balance
              = user_stats[h[q].user].riga_coin_balance - h[q].amount

-----------------------------------------------------------------------------
(* C3 *)

\* C3: a transfer with amount <= 0, with sender = recipient, or whose sender
\* has no row or a balance below the amount when the transfer reads it, is
\* rejected: it never gets to its debit, holds no uncommitted row, ends with
\* the rejection unless an exception takes it to its except clause, and the
\* step that ends it changes no row of user_stats and creates none.
C3_RejectedTransferChangesNothing ==
    /\ [](\A p \in Procs :
            LET bad == \/ h[p].amount <= 0
                       \/ h[p].user = h[p].recipient
                       \/ /\ h[p].pc \notin {"select_balance"}
                          /\ h[p].error = ""
                          /\ \/ ~h[p].result.present
                             \/ h[p].result.riga_coin_balance < h[p].amount
            IN  (h[p].op = "send" /\ bad) =>
                    /\ h[p].pc \in {"select_balance", "answer_insufficient",
                                    "return", "answer_error", "done"}
                    /\ h[p].outcome # "sent"
                    /\ writes[p] = NoWrites
                    /\ (h[p].pc = "done" /\ h[p].error = "")
                          => h[p].outcome \in Rejections)
    /\ [][\A p \in Procs :
            RejectsIn(p) => /\ user_stats' = user_stats
                            /\ learning_records' = learning_records
                            /\ writes' = writes]_vars

\* a transfer was rejected because the sender's row holds less than the amount
C3_Witness ==
    \E p \in Procs :
        /\ SendDone(p) /\ h[p].outcome = "insufficient"
        /\ h[p].result.present
        /\ h[p].result.riga_coin_balance > 0
        /\ h[p].result.riga_coin_balance < h[p].amount

-----------------------------------------------------------------------------
(* C4 *)

\* send run alone on a table: the table it leaves
send_sequential(rows, sender_id, recipient_id, amount) ==
    IF \/ send_precheck(sender_id, recipient_id, amount) # "proceed"
       \/ insufficient(SelectBalance(rows[sender_id]), amount)
    THEN rows
    ELSE [u \in Users |->
            IF u = sender_id THEN debit(rows[u], amount)
            ELSE IF u = recipient_id THEN credit(rows[u], amount)
            ELSE rows[u]]

\* the table a behaviour of TransferSpec started from: transfers change no
\* streak and no date, a row made by a transfer carries the sentinel date, and
\* an initial row holds the awards of its streak
TransferStartRows ==
    [u \in Users |->
        IF user_stats[u].present /\ user_stats[u].last_study_date # SentinelDate
        THEN InitRow(user_stats[u].current_streak)
        ELSE NoRow]

SameBalances(rows1, rows2) ==
    \A u \in Users : Balance(rows1, u) = Balance(rows2, u)

\* the transfer of handler p is through: it got past its prechecks and its
\* defer, ran in its transaction, and ended by its commit, by the rejection
\* of an insufficient balance or by the database's deadlock error, each
\* answered to the user
TransferThrough(p) ==
    /\ SendDone(p)
    /\ send_precheck(h[p].user, h[p].recipient, h[p].amount) = "proceed"
    /\ \/ h[p].outcome \in {"sent", "insufficient"} /\ h[p].error = ""
       \/ h[p].outcome = "error" /\ h[p].error = "DeadlockDetected"

\* C4: when a transfer A->B and a transfer B->A that ran concurrently are both
\* through (each one committed, rejected for its balance, or ended by the
\* database), the balances are those of running the two one after the other
\* in one of the two orders.
C4_OppositeTransfersSerial ==
    \A p, q \in Procs :
        ( /\ p # q /\ nops = 2
          /\ TransferThrough(p) /\ TransferThrough(q)
          /\ h[p].user # h[p].recipient
          /\ h[p].user = h[q].recipient /\ h[p].recipient = h[q].user )
        => LET T(rows, x) == send_sequential(rows, h[x].user, h[x].recipient, h[x].amount)
           IN  \/ SameBalances(user_stats, T(T(TransferStartRows, p), q))
               \/ SameBalances(user_stats, T(T(TransferStartRows, q), p))

-----------------------------------------------------------------------------
(* C5 *)

\* C5: of two study events of one user for the same study date, at most one
\* is treated as the first of the day and gets min(streak - 6, 50); with a
\* streak >= 7 the other one is awarded exactly 1.
C5_OneFirstOfDay ==
    \A p, q \in Procs :
        ( /\ p # q
          /\ StudyOk(p) /\ StudyOk(q)
          /\ h[p].user = h[q].user
          /\ h[p].study_date = h[q].study_date )
        => /\ ~(h[p].is_first /\ h[q].is_first)
           /\ (h[p].is_first /\ h[q].new_streak >= 7) => h[q].riga_awarded = 1

-----------------------------------------------------------------------------
(* C6 *)

\* the study handler p has computed its new streak
HasStreak(p) ==
    /\ h[p].op = "study"
    /\ h[p].pc \in {"upsert", "add_coins", "commit", "answer"} \/ StudyOk(p)

\* the study handler p has computed its first-of-day flag
HasFlag(p) ==
    /\ h[p].op = "study"
    /\ h[p].pc \in {"save_record", "streak_select", "upsert", "add_coins", "commit",
                    "answer"}
       \/ StudyOk(p)

\* C6: with the prior state (s, d) the event read and gap = today - d: no
\* prior state gives streak 1 and first-of-day; gap 0 gives s and not
\* first-of-day; gap 1 gives s + 1 and first-of-day; gap > 1 gives 1 and
\* first-of-day; and the row the event writes and commits holds the new
\* streak and today.
C6_StreakTransition ==
    /\ [](\A p \in Procs :
            /\ HasStreak(p) =>
                 LET r == h[p].streak_result
                     gap == h[p].study_date - r.last_study_date
                 IN  /\ ~r.present => h[p].new_streak = 1
                     /\ (r.present /\ gap = 0) => h[p].new_streak = r.current_streak
                     /\ (r.present /\ gap = 1) => h[p].new_streak = r.current_streak + 1
                     /\ (r.present /\ gap > 1) => h[p].new_streak = 1
            /\ HasFlag(p) =>
                 LET r == h[p].result
                     gap == h[p].study_date - r.last_study_date
                 IN  /\ ~r.present => h[p].is_first
                     /\ (r.present /\ gap = 0) => ~h[p].is_first
                     /\ (r.present /\ gap >= 1) => h[p].is_first
            /\ (h[p].op = "study" /\ h[p].pc \in {"add_coins", "commit"}) =>
                 /\ h[p].user \in DOMAIN writes[p]
                 /\ writes[p][h[p].user].current_streak = h[p].new_streak
                 /\ writes[p][h[p].user].last_study_date = h[p].study_date)
    /\ [][\A p \in Procs :
            CommitsStudy(p) =>
               /\ user_stats'[h[p].user].present
               /\ user_stats'[h[p].user].current_streak = h[p].new_streak
               /\ user_stats'[h[p].user].last_study_date = h[p].study_date]_vars

\* an event on the day after the stored date has continued a streak, and the
\* committed row holds the new streak and the event's study date
C6_Witness ==
    \E p \in Procs :
        /\ StudyOk(p)
        /\ h[p].streak_result.present
        /\ h[p].study_date - h[p].streak_result.last_study_date = 1
        /\ h[p].new_streak = h[p].streak_result.current_streak + 1
        /\ h[p].is_first
        /\ user_stats[h[p].user].current_streak = h[p].new_streak
        /\ user_stats[h[p].user].last_study_date = h[p].study_date

-----------------------------------------------------------------------------
(* C7 *)

\* C7: a study event whose study date is earlier than the stored
\* last_study_date leaves current_streak as it was and is not first-of-day.
C7_BackwardGapKeepsStreak ==
    \A p \in Procs :
        /\ ( /\ HasStreak(p)
             /\ h[p].streak_result.present
             /\ h[p].study_date < h[p].streak_result.last_study_date )
           => h[p].new_streak = h[p].streak_result.current_streak
        /\ ( /\ HasFlag(p)
             /\ h[p].result.present
             /\ h[p].study_date < h[p].result.last_study_date )
           => ~h[p].is_first

-----------------------------------------------------------------------------
(* C8 *)

\* C8: no step takes the last_study_date of a user back (nor removes the row).
C8_LastStudyDateMonotone ==
    [][\A u \in Users :
          user_stats[u].present =>
             /\ user_stats'[u].present
             /\ user_stats'[u].last_study_date >= user_stats[u].last_study_date]_vars

-----------------------------------------------------------------------------
(* C9 *)

\* the award as the claim states it
AwardOf(streak, first_of_day) ==
    CASE streak <= 6 -> 0
      [] streak >= 7 /\ first_of_day -> IF streak - 6 < 50 THEN streak - 6 ELSE 50
      [] streak >= 7 /\ ~first_of_day -> 1

\* C9: the award of a study event is 0 for a streak in 1..6, min(streak - 6, 50)
\* for a streak >= 7 on the first event of the day (4 for streak 10, 50 for
\* streak 60) and 1 for a streak >= 7 otherwise, and the commit of the event
\* raises the user's balance by exactly that award.
C9_AwardAndBalance ==
    /\ [](\A p \in Procs :
            (StudyOk(p) \/ (h[p].op = "study" /\ h[p].pc \in {"commit", "answer"})) =>
               /\ h[p].new_streak >= 1
               /\ h[p].riga_awarded = AwardOf(h[p].new_streak, h[p].is_first)
               /\ (h[p].new_streak = 10 /\ h[p].is_first) => h[p].riga_awarded = 4
               /\ (h[p].new_streak = 60 /\ h[p].is_first) => h[p].riga_awarded = 50)
    /\ [][\A p \in Procs :
            CommitsStudy(p) =>
               Balance(user_stats', h[p].user)
                  = Balance(user_stats, h[p].user)
                      + AwardOf(h[p].new_streak, h[p].is_first)]_vars

\* a first event of the day at streak 60 was awarded the cap, and the balance
\* holds it on top of the awards of the 59 days before
C9_Witness ==
    \E p \in Procs :
        /\ StudyOk(p)
        /\ h[p].new_streak = 60 /\ h[p].is_first /\ h[p].riga_awarded = 50
        /\ user_stats[h[p].user].riga_coin_balance = AwardsUpTo(59) + 50

-----------------------------------------------------------------------------
(* C10 *)

\* the study dates on which user u has a study record
StudyDays(u) ==
    { StudyDateAt(r[2]) : r \in { x \in BagToSet(learning_records) : x[1] = u } }

\* the length of the run of consecutive days of `days` that ends at d
RECURSIVE RunEndingAt(_, _)
RunEndingAt(days, d) == IF d \in days THEN 1 + RunEndingAt(days, d - 1) ELSE 0

\* C10: with one handler at a time (so instants never decrease), every user
\* with a study record has a row whose current_streak is the length of the
\* run of consecutive study dates with a record that ends at last_study_date.
C10_StreakIsRunLength ==
    \A u \in Users :
        StudyDays(u) # {} =>
            /\ user_stats[u].present
            /\ user_stats[u].current_streak
                  = RunEndingAt(StudyDays(u), user_stats[u].last_study_date)

\* a user broke a streak of 9 by a day without a record and has studied on
\* the two days after it
C10_Witness ==
    \E u \in Users :
        /\ user_stats[u].present
        /\ user_stats[u].current_streak = 2
        /\ user_stats[u].last_study_date = StartDay + 1
        /\ Cardinality(StudyDays(u)) = 11

-----------------------------------------------------------------------------
(* C11 *)

\* the number of study records of user u in a version of learning_records
RecordCount(records, u) ==
    BagCardinality([r \in { x \in BagToSet(records) : x[1] = u } |-> records[r]])

\* C11: once the committed row of a user carries a study date, the commit of
\* a further study event of that user for the same study date leaves
\* current_streak and last_study_date as they are and adds exactly one study
\* record, whatever ran before or beside it.
C11_SameDayEventKeepsStreak ==
    [][\A p \in Procs :
          ( /\ CommitsStudy(p)
            /\ user_stats[h[p].user].present
            /\ user_stats[h[p].user].last_study_date = h[p].study_date )
          => /\ user_stats'[h[p].user].current_streak
                   = user_stats[h[p].user].current_streak
             /\ user_stats'[h[p].user].last_study_date
                   = user_stats[h[p].user].last_study_date
             /\ RecordCount(learning_records', h[p].user)
                   = RecordCount(learning_records, h[p].user) + 1]_vars

-----------------------------------------------------------------------------
(* C12 *)

\* C12: a study event in which a statement raises (the first SELECT, the
\* record insert, the streak upsert, the balance increment or the commit)
\* commits nothing: the step of the exception leaves every row of user_stats
\* and the study records as they are and drops what the event had written,
\* and before that step none of its statements had reached the committed
\* tables, which change only when a handler commits.
C12_FailedStudyRolledBack ==
    [][ /\ \A p \in Procs :
              (h[p].op = "study" /\ h[p].pc # "answer" /\ FailsIn(p)) =>
                  /\ h'[p].error = "OperationalError"
                  /\ user_stats' = user_stats
                  /\ learning_records' = learning_records
                  /\ writes'[p] = NoWrites
                  /\ inserts'[p] = EmptyBag
        /\ (\A p \in Procs : ~CommitsStudy(p) /\ ~CommitsSend(p)) =>
              /\ user_stats' = user_stats
              /\ learning_records' = learning_records
      ]_vars

\* a study event of a user with a streak of 9 failed after its record insert,
\* its streak upsert and its balance increment of 4 had run: the user's row
\* and the 9 records are those from before the event
C12_Witness ==
    \E p \in Procs :
        /\ h[p].op = "study" /\ h[p].pc = "done" /\ h[p].outcome = "error"
        /\ h[p].error = "OperationalError"
        /\ h[p].riga_awarded = 4
        /\ user_stats[h[p].user] = InitRow(9)
        /\ RecordCount(learning_records, h[p].user) = 9

-----------------------------------------------------------------------------
(* C13 *)

\* what the step adds to the balance of user u according to the handlers
\* that commit in it: the award of a study event of u, the amount of a
\* transfer to u, minus the amount of a transfer from u
CommittedDelta(p, u) ==
    (IF CommitsStudy(p) /\ h[p].user = u THEN h[p].riga_awarded ELSE 0)
    + (IF CommitsSend(p) /\ h[p].recipient = u THEN h[p].amount ELSE 0)
    - (IF CommitsSend(p) /\ h[p].user = u THEN h[p].amount ELSE 0)

\* the handlers that commit in the step
Committing == { p \in Procs : CommitsStudy(p) \/ CommitsSend(p) }

\* C13: in every step of every interleaving the committed balance of each
\* user grows by exactly the awards and credits committed for that user in
\* the step minus the debits committed in it, so that the balance at any
\* time is the initial balance plus all committed awards and credits minus
\* all committed debits: no increment is lost or applied twice.
C13_NoLostBalanceUpdate ==
    [][ /\ Cardinality(Committing) <= 1
        /\ Committing = {} =>
              \A u \in Users : Balance(user_stats', u) = Balance(user_stats, u)
        /\ \A p \in Committing, u \in Users :
              Balance(user_stats', u)
                  = Balance(user_stats, u) + CommittedDelta(p, u)
      ]_vars

\* a user who held 6 has committed an award of 4 and was credited 4 by a
\* transfer of the other user, who held 6: the balances are 14 and 2
C13_Witness ==
    \E p, q \in Procs :
        /\ StudyOk(p) /\ h[p].riga_awarded = 4
        /\ Sent(q) /\ h[q].recipient = h[p].user /\ h[q].amount = 4
        /\ Balance(user_stats, h[p].user) = 14
        /\ Balance(user_stats, h[q].user) = 2

-----------------------------------------------------------------------------
(* C14 *)

\* the row as a transfer of `amount` to a user without a row creates it:
\* streak 0, day 0 of the epoch (1970-01-01), the amount as balance
CreatedByTransfer(row, amount) ==
    /\ row.present
    /\ row.current_streak = 0
    /\ row.last_study_date = 0
    /\ row.riga_coin_balance = amount

\* C14: a transfer that commits while its recipient has no row creates the
\* row (0, 1970-01-01, amount); a study event that reads a row with the
\* sentinel date computes streak 1 and first-of-day; and a study event that
\* commits on a row still carrying the sentinel date writes (1, today) and
\* leaves the balance of that row as it is.
C14_TransferCreatesSentinelRow ==
    /\ [](\A p \in Procs :
            /\ ( HasStreak(p) /\ h[p].streak_result.present
                 /\ h[p].streak_result.last_study_date = 0 )
                  => h[p].new_streak = 1
            /\ ( HasFlag(p) /\ h[p].result.present
                 /\ h[p].result.last_study_date = 0 )
                  => h[p].is_first)
    /\ [][\A p \in Procs :
            /\ (CommitsSend(p) /\ ~user_stats[h[p].recipient].present)
                  => CreatedByTransfer(user_stats'[h[p].recipient], h[p].amount)
            /\ ( CommitsStudy(p) /\ user_stats[h[p].user].present
                 /\ user_stats[h[p].user].last_study_date = 0 )
                  => /\ user_stats'[h[p].user].current_streak = 1
                     /\ user_stats'[h[p].user].last_study_date = h[p].study_date
                     /\ h[p].riga_awarded = 0
                     /\ user_stats'[h[p].user].riga_coin_balance
                           = user_stats[h[p].user].riga_coin_balance]_vars

\* a user without a row was sent 4, and that user's study event afterwards
\* read the sentinel row: it was first of the day and the row is (1, today, 4)
C14_Witness ==
    \E p, q \in Procs :
        /\ Sent(q) /\ h[q].recipient = h[p].user /\ h[q].amount = 4
        /\ StudyOk(p)
        /\ CreatedByTransfer(h[p].streak_result, 0)
        /\ h[p].result.present /\ h[p].result.last_study_date = 0
        /\ h[p].is_first /\ h[p].new_streak = 1
        /\ user_stats[h[p].user] = Row(1, h[p].study_date, 4)

-----------------------------------------------------------------------------
(* C20 *)

\* C20: the streak upsert of a study event leaves the balance of the row it
\* writes as the committed row has it (0 for a new row), and the commit of a
\* study event of user U changes no row of another user and raises U's
\* balance by exactly the award of the event: by nothing when the award is 0.
C20_StudyTouchesOnlyOwnStreak ==
    [][\A p \in Procs :
          /\ ( h[p].op = "study" /\ h[p].pc = "upsert"
               /\ h'[p].pc \in {"add_coins", "commit"} )
                => /\ writes'[p][h[p].user].riga_coin_balance
                         = Balance(user_stats, h[p].user)
                   /\ \A u \in Users \ {h[p].user} : u \notin DOMAIN writes'[p]
          /\ CommitsStudy(p)
                => /\ \A u \in Users \ {h[p].user} : user_stats'[u] = user_stats[u]
                   /\ Balance(user_stats', h[p].user)
                         = Balance(user_stats, h[p].user) + h[p].riga_awarded
                   /\ h[p].riga_awarded = 0
                         => Balance(user_stats', h[p].user)
                               = Balance(user_stats, h[p].user)]_vars

\* a user with streak 9 and balance 6 received 4 by transfer and then
\* studied more than a day after the last study date: the streak is back to 1,
\* nothing was awarded, the balance is 10, and the sender's row was only
\* changed by the transfer
C20_Witness ==
    \E p, q \in Procs :
        /\ StudyOk(p) /\ h[p].riga_awarded = 0 /\ h[p].new_streak = 1
        /\ h[p].streak_result.present /\ h[p].streak_result.current_streak = 9
        /\ Sent(q) /\ h[q].recipient = h[p].user /\ h[q].amount = 4
        /\ user_stats[h[p].user] = Row(1, h[p].study_date, 10)
        /\ user_stats[h[q].user].present
        /\ user_stats[h[q].user].riga_coin_balance = 2

-----------------------------------------------------------------------------
(* C15 *)

\* the award of the first event of day k of a run, as the claim states it
DayAward(k) == IF k <= 6 THEN 0 ELSE IF k - 6 < 50 THEN k - 6 ELSE 50

RECURSIVE SumDayAwards(_)
SumDayAwards(n) == IF n <= 0 THEN 0 ELSE SumDayAwards(n - 1) + DayAward(n)

\* user u has exactly one record on each of the n consecutive study dates
\* that end at d, and no other record but `extra` further ones on d
OnePerDay(u, n, d, extra) ==
    /\ n >= 1
    /\ StudyDays(u) = (d - n + 1) .. d
    /\ \A e \in (d - n + 1) .. (d - 1) :
          BagCardinality(RecordsOn(learning_records, u, e)) = 1
    /\ BagCardinality(RecordsOn(learning_records, u, d)) = 1 + extra

\* C15: when no handler runs and the user, who started without a row, has
\* exactly one record on each of n consecutive study dates up to the last
\* one d, the row is (n, d) with the balance 0 + ... + 0 + 1 + 2 + ... +
\* min(n - 6, 50), the last event was awarded 0 for n <= 6 and min(n - 6, 50)
\* for n >= 7, the balance is 0 for n = 1 and 1 for n = 7; and with a second
\* record on day 10 the streak is still 10, that event was awarded 1 and the
\* balance is 1 + 2 + 3 + 4 + 1 = 11.
C15_ConsecutiveDays ==
    \A n \in 1 .. (MaxDays + 1) :
        LET u == DailyUser
            d == user_stats[u].last_study_date
            last == CHOOSE p \in Procs : StudyOk(p)
        IN  /\ ( AllFree /\ user_stats[u].present /\ OnePerDay(u, n, d, 0) )
                  => /\ user_stats[u].current_streak = n
                     /\ user_stats[u].riga_coin_balance = SumDayAwards(n)
                     /\ h[last].riga_awarded = DayAward(n)
                     /\ n <= 6 => h[last].riga_awarded = 0
                     /\ n = 1 => user_stats[u].riga_coin_balance = 0
                     /\ n = 7 => user_stats[u].riga_coin_balance = 1
            /\ ( AllFree /\ user_stats[u].present /\ n = 10
                 /\ OnePerDay(u, n, d, 1) )
                  => /\ user_stats[u].current_streak = 10
                     /\ h[last].riga_awarded = 1
                     /\ user_stats[u].riga_coin_balance = 11

\* the user has studied once on each of ten consecutive days and a second
\* time on the tenth
C15_Witness ==
    /\ AllFree
    /\ user_stats[DailyUser].present
    /\ OnePerDay(DailyUser, 10, user_stats[DailyUser].last_study_date, 1)
    /\ user_stats[DailyUser].riga_coin_balance = 11

-----------------------------------------------------------------------------
(* C16 *)

\* C16: a study event invoked at an instant whose local (JST = UTC + 9 h)
\* time of day is before 03:00 (minutes 0 .. 179 of the local day) has the
\* local date minus one day as its study date, and the local date from 03:00
\* on (minutes 180 .. 1439): 02:59 gives date - 1 and 03:00 gives date.
C16_StudyDateGraceHours ==
    \A p \in Procs :
        h[p].op = "study" =>
            LET local == h[p].at + 9 * 60
                date == local \div (24 * 60)
                minute_of_day == local % (24 * 60)
            IN  /\ minute_of_day < 3 * 60 => h[p].study_date = date - 1
                /\ minute_of_day >= 3 * 60 => h[p].study_date = date
                /\ minute_of_day = 2 * 60 + 59 => h[p].study_date = date - 1
                /\ minute_of_day = 3 * 60 => h[p].study_date = date

\* a study event invoked at 02:59 local time of StartDay + 1 has committed a
\* row dated StartDay
C16_Witness ==
    \E p \in Procs :
        /\ StudyOk(p)
        /\ h[p].at = (StartDay + 1) * 1440 + 179 - 540
        /\ h[p].study_date = StartDay
        /\ user_stats[h[p].user].last_study_date = StartDay

-----------------------------------------------------------------------------
(* C17 *)

\* C17: under fair scheduling every handler that has started, transfer or
\* study event, comes to its end (committed, rejected or reported failed);
\* two transfers that wait for each other's row lock do not wait forever.
C17_EveryHandlerEnds == \A p \in Procs : InFlight(p) ~> Free(p)

\* two transfers in opposite directions met in a deadlock: the database
\* ended one, which reported the failure, and the other one committed
C17_Witness ==
    \E p, q \in Procs :
        /\ h[p].op = "send" /\ h[p].pc = "done" /\ h[p].error = "DeadlockDetected"
        /\ Sent(q)
        /\ h[q].user = h[p].recipient /\ h[q].recipient = h[p].user

-----------------------------------------------------------------------------
(* C18 *)

\* the step is the query of a run of the reminder task
SweepQueries ==
    reminded.pc \in {"idle", "done"} /\ reminded'.queried /\ reminded' # reminded

\* C18: the query of a run of the reminder task returns exactly the users
\* that have a committed row whose last_study_date is the day of the query,
\* no other user and all of those; the messages that follow go to users of
\* that result only and leave the result as it is; and no step of the run
\* changes a row of user_stats, a study record or what a handler has written.
C18_SweepSelectsExactlyThatDay ==
    [][reminded' # reminded =>
          /\ user_stats' = user_stats
          /\ learning_records' = learning_records
          /\ writes' = writes /\ inserts' = inserts /\ h' = h
          /\ SweepQueries =>
                \A u \in Users :
                    u \in reminded'.users_to_remind_ids
                       <=> ( /\ user_stats[u].present
                             /\ user_stats[u].last_study_date
                                   = reminded'.previous_study_day )
          /\ reminded.pc \in {"fetch_user", "send", "leave"} =>
                /\ reminded'.users_to_remind_ids = reminded.users_to_remind_ids
                /\ reminded'.previous_study_day = reminded.previous_study_day
                /\ reminded'.mentioned \cup reminded'.not_found
                      \subseteq reminded.users_to_remind_ids]_vars

\* a run returned and mentioned one of two users that both have a row: the
\* other one's last_study_date is a later day
C18_Witness ==
    /\ reminded.pc = "done" /\ reminded.outcome = "swept"
    /\ \E u, v \in Users :
          /\ reminded.users_to_remind_ids = {u}
          /\ reminded.mentioned = {u}
          /\ user_stats[u].present /\ user_stats[v].present
          /\ user_stats[u].last_study_date = reminded.previous_study_day
          /\ user_stats[v].last_study_date > reminded.previous_study_day

-----------------------------------------------------------------------------
(* C19 *)

\* the logical day of an instant: the local date, minus one before 03:00
LogicalDayAt(t_utc) ==
    LET local == t_utc + 9 * 60
    IN  IF local % (24 * 60) < 3 * 60
        THEN local \div (24 * 60) - 1
        ELSE local \div (24 * 60)

\* C19 as stated: every run of the reminder task that makes its query asks
\* for the day two logical days before the logical day of the run.
C19_SweepAsksTodayMinusTwo ==
    reminded.queried
       => reminded.previous_study_day = LogicalDayAt(reminded.at) - 2

\* C19 as amended: every run of the reminder task that makes its query asks
\* for the day one logical day before the logical day of the run (today - 1).
C19_SweepAsksTodayMinusOne ==
    reminded.queried
       => reminded.previous_study_day = LogicalDayAt(reminded.at) - 1

\* the run of 22:00 on StartDay asked for StartDay - 1 and found and
\* mentioned the user who studied before 03:00 that day and not since
C19_Witness ==
    /\ reminded.queried /\ reminded.outcome = "swept"
    /\ reminded.at = StartDay * 1440 + 22 * 60 - 540
    /\ reminded.previous_study_day = StartDay - 1
    /\ \E p \in Procs :
          /\ StudyOk(p) /\ h[p].study_date = StartDay - 1
          /\ h[p].user \in reminded.mentioned

====
